---- MODULE Spec2Model ----
(***************************************************************************)
(* Model of the reward_vault program (src/contracts/reward_vault.rs).      *)
(*                                                                         *)
(* Every instruction handler is a pure operator from the ledger state and  *)
(* the instruction's inputs to an outcome [result, st, event]: `st` is the *)
(* ledger as the handler left it when it returned.  Process then applies   *)
(* the host's rule that an instruction returning an error commits nothing. *)
(*                                                                         *)
(* Scope: rent and storage allocation are not modelled (a vault's lamports *)
(* are its custody balance); token accounts exist from the start, owned    *)
(* and minted as TokenOwner/TokenMint say; no account ever delegates.      *)
(* Integer widths are scaled down: u64 is 0..U64Max, u128 is 0..U128Max.  *)
(***************************************************************************)
EXTENDS Integers, FiniteSets, Sequences, TLC

VARIABLES vaults, epochs, lamports, tokens, last

vars == <<vaults, epochs, lamports, tokens, last>>

---------------------------------------------------------------------------
(* Bounds *)

\* largest value of the (scaled-down) u64 amount type
U64Max == 1
\* largest value of the (scaled-down) u128 accumulator type
U128Max == 2

---------------------------------------------------------------------------
(* Identities and addresses *)

\* public keys of the wallets that act as admin, distributor, funder, recipient
Keys == {"k1", "k2"}
\* Option<Pubkey>::None
\* mints offered to InitVault
InitMints == {"m1"}
NoMint == "none"
NoKey == "none"

Wallet(k) == [kind |-> "wallet", id |-> k]
\* the vault address derived from seeds [SEED, admin]
VaultPda(a) == [kind |-> "vault", id |-> a]
Accounts == {Wallet(k) : k \in Keys} \cup {VaultPda(a) : a \in Keys}

\* token accounts of the token program: tv belongs to k1's vault, tu to wallet k1,
\* tw and tx to wallet k2; tx holds another mint
TokenAccts == {"tv", "tu", "tw", "tx"}
TokenOwner(t) == CASE t = "tv" -> VaultPda("k1") [] t = "tu" -> Wallet("k1") [] OTHER -> Wallet("k2")
TokenMint(t) == IF t = "tx" THEN "m2" ELSE "m1"
NoAcct == "none"

\* the (admin, distributor, reward_mint, pay_sol) offered to InitVault: every one for
\* admin k1; k2 is offered the native vault it distributes itself
InitVaultInputs ==
    {<<"k1", d, m, p>> : d \in Keys, m \in InitMints \cup {NoMint}, p \in BOOLEAN}
    \cup {<<"k2", "k2", NoMint, TRUE>>}

Amounts == 0..U64Max
\* timestamps and epoch indexes offered to StartEpoch
Times == {0, 1}
Indexes == {0}

---------------------------------------------------------------------------
(* Records *)

EmptyVault == [init |-> FALSE, admin |-> NoKey, distributor |-> NoKey, reward_mint |-> NoMint, pay_sol |-> FALSE]
EmptyEpoch == [init |-> FALSE, vault |-> NoKey, start_ts |-> 0, end_ts |-> 0, index |-> 0, total_funded |-> 0]
NoEvent == [name |-> "none", start_ts |-> 0, end_ts |-> 0, epoch_index |-> 0]
NewEpoch(start_ts, end_ts, index) == [name |-> "NewEpoch", start_ts |-> start_ts, end_ts |-> end_ts, epoch_index |-> index]

Ledger == [vaults |-> vaults, epochs |-> epochs, lamports |-> lamports, tokens |-> tokens]

Ok(s) == [result |-> "Ok", st |-> s, event |-> NoEvent]
Err(s, e) == [result |-> e, st |-> s, event |-> NoEvent]

---------------------------------------------------------------------------
(* init_vault *)

\* init_vault without the require! of line 47
init_vault_unchecked(s, admin, distributor, reward_mint, pay_sol) ==
    Ok([s EXCEPT !.vaults[admin] =
            [init |-> TRUE, admin |-> admin, distributor |-> distributor,
             reward_mint |-> reward_mint, pay_sol |-> pay_sol]])

init_vault(s, admin, distributor, reward_mint, pay_sol) ==
    IF ~(pay_sol \/ reward_mint # NoMint) THEN Err(s, "RewardMintRequired")
    ELSE Ok([s EXCEPT !.vaults[admin] =
                [init |-> TRUE, admin |-> admin, distributor |-> distributor,
                 reward_mint |-> reward_mint, pay_sol |-> pay_sol]])

\* InitVault with init_if_needed for init: an address in use is written again
InitVaultIx_if_needed(s, admin, distributor, reward_mint, pay_sol) ==
    init_vault(s, admin, distributor, reward_mint, pay_sol)

\* InitVault that, on an address in use, records the distributor it is given
InitVaultIx_rotate(s, admin, distributor, reward_mint, pay_sol) ==
    IF s.vaults[admin].init THEN Ok([s EXCEPT !.vaults[admin].distributor = distributor])
    ELSE init_vault(s, admin, distributor, reward_mint, pay_sol)

\* #[account(init, seeds = [SEED, admin])]: the address must not be in use yet
InitVaultIx(s, admin, distributor, reward_mint, pay_sol) ==
    IF s.vaults[admin].init THEN Err(s, "AccountAlreadyInUse")
    ELSE init_vault(s, admin, distributor, reward_mint, pay_sol)

---------------------------------------------------------------------------
(* start_epoch *)

\* start_epoch that lets an empty window through (<= for <)
start_epoch_empty_window(s, vault, start_ts, end_ts, index) ==
    IF ~(start_ts <= end_ts) THEN Err(s, "InvalidEpochWindow")
    ELSE [result |-> "Ok",
          st |-> [s EXCEPT !.epochs[vault] =
                    [init |-> TRUE, vault |-> vault, start_ts |-> start_ts, end_ts |-> end_ts,
                     index |-> index, total_funded |-> 0]],
          event |-> NewEpoch(start_ts, end_ts, index)]

\* start_epoch whose event carries the two timestamps in the other order
start_epoch_swapped_event(s, vault, start_ts, end_ts, index) ==
    IF ~(start_ts < end_ts) THEN Err(s, "InvalidEpochWindow")
    ELSE [result |-> "Ok",
          st |-> [s EXCEPT !.epochs[vault] =
                    [init |-> TRUE, vault |-> vault, start_ts |-> start_ts, end_ts |-> end_ts,
                     index |-> index, total_funded |-> 0]],
          event |-> NewEpoch(end_ts, start_ts, index)]

start_epoch(s, vault, start_ts, end_ts, index) ==
    IF ~(start_ts < end_ts) THEN Err(s, "InvalidEpochWindow")
    ELSE [result |-> "Ok",
          st |-> [s EXCEPT !.epochs[vault] =
                    [init |-> TRUE, vault |-> vault, start_ts |-> start_ts, end_ts |-> end_ts,
                     index |-> index, total_funded |-> 0]],
          event |-> NewEpoch(start_ts, end_ts, index)]

\* StartEpoch with init_if_needed for init: an epoch address in use is written again
StartEpochIx_if_needed(s, admin, vault, start_ts, end_ts, index) ==
    IF ~s.vaults[vault].init THEN Err(s, "AccountNotInitialized")
    ELSE IF s.vaults[vault].admin # admin THEN Err(s, "ConstraintHasOne")
    ELSE start_epoch(s, vault, start_ts, end_ts, index)

\* StartEpoch accounts: reward_vault is a RewardVault account; epoch is created at
\* seeds [SEED, reward_vault], so that address must not be in use; has_one = admin
StartEpochIx(s, admin, vault, start_ts, end_ts, index) ==
    IF ~s.vaults[vault].init THEN Err(s, "AccountNotInitialized")
    ELSE IF s.epochs[vault].init THEN Err(s, "AccountAlreadyInUse")
    ELSE IF s.vaults[vault].admin # admin THEN Err(s, "ConstraintHasOne")
    ELSE start_epoch(s, vault, start_ts, end_ts, index)

---------------------------------------------------------------------------
(* The token program's transfer, as token::transfer invokes it *)

token_transfer(s, from, to, authority, amount) ==
    IF s.tokens[from] < amount THEN Err(s, "TokenInsufficientFunds")
    ELSE IF TokenMint(from) # TokenMint(to) THEN Err(s, "TokenMintMismatch")
    ELSE IF TokenOwner(from) # authority THEN Err(s, "TokenOwnerMismatch")
    ELSE IF from = to THEN Ok(s)
    ELSE IF s.tokens[to] + amount > U64Max THEN Err(s, "TokenOverflow")
    ELSE Ok([s EXCEPT !.tokens[from] = @ - amount, !.tokens[to] = @ + amount])

\* The system program's transfer, as invoke(system_instruction::transfer) runs it
system_transfer(s, from, to, amount) ==
    IF s.lamports[from] < amount THEN Err(s, "SystemInsufficientFunds")
    ELSE IF s.lamports[to] + amount > U64Max THEN Err(s, "SystemArithmeticOverflow")
    ELSE Ok([s EXCEPT !.lamports[from] = @ - amount, !.lamports[to] = @ + amount])

---------------------------------------------------------------------------
(* fund_vault *)

\* fund_sol that reports success without moving the lamports
fund_sol_nothing(s, vault, funder, amount) ==
    IF s.lamports[Wallet(funder)] < amount THEN Err(s, "SystemInsufficientFunds") ELSE Ok(s)

fund_sol(s, vault, funder, amount) ==
    system_transfer(s, Wallet(funder), VaultPda(vault), amount)

fund_spl(s, vault, funder, funder_token, vault_token, amount) ==
    LET reward_mint == s.vaults[vault].reward_mint IN
    IF reward_mint = NoMint THEN Err(s, "RewardMintRequired")
    ELSE IF vault_token = NoAcct THEN Err(s, "VaultTokenRequired")
    ELSE IF funder_token = NoAcct THEN Err(s, "FunderTokenRequired")
    ELSE IF TokenMint(vault_token) # reward_mint THEN Err(s, "MintMismatch")
    ELSE IF TokenMint(funder_token) # reward_mint THEN Err(s, "MintMismatch")
    ELSE token_transfer(s, funder_token, vault_token, Wallet(funder), amount)

\* u128::wrapping_add in place of checked_add
wrapping_add(a, b) == (a + b) % (U128Max + 1)

\* u128::checked_add: None (here -1) on overflow
checked_add(a, b) == IF a + b > U128Max THEN -1 ELSE a + b

\* the epoch update that starts the count again at the amount when the sum does not fit
fund_vault_epoch_restart(s, vault, epoch, amount) ==
    IF epoch = NoKey THEN Ok(s)
    ELSE IF s.epochs[epoch].vault # vault THEN Err(s, "EpochMismatch")
    ELSE LET sum == checked_add(s.epochs[epoch].total_funded, amount) IN
         Ok([s EXCEPT !.epochs[epoch].total_funded = IF sum = -1 THEN amount ELSE sum])

\* lines 122-131: the epoch is updated after the funds have been moved
fund_vault_epoch(s, vault, epoch, amount) ==
    IF epoch = NoKey THEN Ok(s)
    ELSE IF s.epochs[epoch].vault # vault THEN Err(s, "EpochMismatch")
    ELSE LET sum == checked_add(s.epochs[epoch].total_funded, amount) IN
         IF sum = -1 THEN Err(s, "ArithmeticOverflow")
         ELSE Ok([s EXCEPT !.epochs[epoch].total_funded = sum])

\* the `?` of lines 117 and 119: an error of the transfer is returned at once
fund_vault_tracked(funded, vault, epoch, amount) ==
    IF funded.result # "Ok" THEN funded
    ELSE fund_vault_epoch(funded.st, vault, epoch, amount)

\* lines 115-120: route funding based on vault configuration
fund_route(s, vault, funder, funder_token, vault_token, amount) ==
    IF s.vaults[vault].pay_sol
    THEN fund_sol(s, vault, funder, amount)
    ELSE fund_spl(s, vault, funder, funder_token, vault_token, amount)

\* fund_vault without the require! of line 111
fund_vault_zero_ok(s, vault, funder, epoch, funder_token, vault_token, amount) ==
    fund_vault_tracked(fund_route(s, vault, funder, funder_token, vault_token, amount),
                       vault, epoch, amount)

fund_vault(s, vault, funder, epoch, funder_token, vault_token, amount) ==
    IF ~(amount > 0) THEN Err(s, "InvalidAmount")
    ELSE fund_vault_tracked(fund_route(s, vault, funder, funder_token, vault_token, amount),
                            vault, epoch, amount)

\* FundVault accounts: reward_vault is a RewardVault account; epoch, when given, is an
\* Epoch account
FundVaultIx(s, vault, funder, epoch, funder_token, vault_token, amount) ==
    IF ~s.vaults[vault].init THEN Err(s, "AccountNotInitialized")
    ELSE IF epoch # NoKey /\ ~s.epochs[epoch].init THEN Err(s, "AccountNotInitialized")
    ELSE fund_vault(s, vault, funder, epoch, funder_token, vault_token, amount)

---------------------------------------------------------------------------
(* disburse_sol, disburse_spl *)

\* pay_out_sol without the check of the vault's balance
pay_out_sol_unchecked(s, vault, recipient, amount, overflow_checks) ==
    Ok([s EXCEPT !.lamports[VaultPda(vault)] = @ - amount, !.lamports[Wallet(recipient)] = @ + amount])

\* pay_out_sol with a saturating `+=`: a recipient at the top is credited nothing
pay_out_sol_saturating(s, vault, recipient, amount, overflow_checks) ==
    LET debited == [s EXCEPT !.lamports[VaultPda(vault)] = @ - amount] IN
    IF ~(s.lamports[VaultPda(vault)] >= amount) THEN Err(s, "InsufficientVaultBalance")
    ELSE IF s.lamports[Wallet(recipient)] + amount > U64Max
         THEN Ok([debited EXCEPT !.lamports[Wallet(recipient)] = U64Max])
    ELSE Ok([debited EXCEPT !.lamports[Wallet(recipient)] = @ + amount])

\* `overflow_checks` is the build's setting for integer overflow in `+=`: a panic when
\* set, a wrapped sum otherwise, which the host then rejects as an unbalanced instruction
pay_out_sol(s, vault, recipient, amount, overflow_checks) ==
    LET balance == s.lamports[VaultPda(vault)]
        debited == [s EXCEPT !.lamports[VaultPda(vault)] = @ - amount] IN
    IF ~(balance >= amount) THEN Err(s, "InsufficientVaultBalance")
    ELSE IF s.lamports[Wallet(recipient)] + amount > U64Max
         THEN IF overflow_checks THEN Err(debited, "ProgramFailedToComplete")
              ELSE Err([debited EXCEPT !.lamports[Wallet(recipient)] = (@ + amount) % (U64Max + 1)],
                       "UnbalancedInstruction")
    ELSE Ok([debited EXCEPT !.lamports[Wallet(recipient)] = @ + amount])

\* disburse_sol without the comparison of the signer's key with the recorded distributor
disburse_sol_any_key(s, vault, signer, is_signer, recipient, amount, overflow_checks) ==
    IF ~(amount > 0) THEN Err(s, "InvalidAmount")
    ELSE IF ~s.vaults[vault].pay_sol THEN Err(s, "WrongPayoutMode")
    ELSE IF ~is_signer THEN Err(s, "MissingDistributorSignature")
    ELSE pay_out_sol(s, vault, recipient, amount, overflow_checks)

\* disburse_sol without the require! of line 153
disburse_sol_unsigned(s, vault, signer, is_signer, recipient, amount, overflow_checks) ==
    IF ~(amount > 0) THEN Err(s, "InvalidAmount")
    ELSE IF ~s.vaults[vault].pay_sol THEN Err(s, "WrongPayoutMode")
    ELSE IF signer # s.vaults[vault].distributor THEN Err(s, "UnauthorizedDistributor")
    ELSE pay_out_sol(s, vault, recipient, amount, overflow_checks)

\* disburse_sol that looks at the vault's balance before it looks at the signer
disburse_sol_balance_first(s, vault, signer, is_signer, recipient, amount, overflow_checks) ==
    IF ~(amount > 0) THEN Err(s, "InvalidAmount")
    ELSE IF ~s.vaults[vault].pay_sol THEN Err(s, "WrongPayoutMode")
    ELSE IF ~(s.lamports[VaultPda(vault)] >= amount) THEN Err(s, "InsufficientVaultBalance")
    ELSE IF signer # s.vaults[vault].distributor THEN Err(s, "UnauthorizedDistributor")
    ELSE IF ~is_signer THEN Err(s, "MissingDistributorSignature")
    ELSE pay_out_sol(s, vault, recipient, amount, overflow_checks)

disburse_sol(s, vault, signer, is_signer, recipient, amount, overflow_checks) ==
    IF ~(amount > 0) THEN Err(s, "InvalidAmount")
    ELSE IF ~s.vaults[vault].pay_sol THEN Err(s, "WrongPayoutMode")
    ELSE IF signer # s.vaults[vault].distributor THEN Err(s, "UnauthorizedDistributor")
    ELSE IF ~is_signer THEN Err(s, "MissingDistributorSignature")
    ELSE pay_out_sol(s, vault, recipient, amount, overflow_checks)

DisburseSolIx(s, vault, signer, is_signer, recipient, amount, overflow_checks) ==
    IF ~s.vaults[vault].init THEN Err(s, "AccountNotInitialized")
    ELSE disburse_sol(s, vault, signer, is_signer, recipient, amount, overflow_checks)

pay_out_spl(s, vault, vault_token, recipient_token, amount) ==
    LET reward_mint == s.vaults[vault].reward_mint IN
    IF reward_mint = NoMint THEN Err(s, "RewardMintRequired")
    ELSE IF TokenMint(vault_token) # reward_mint THEN Err(s, "MintMismatch")
    ELSE IF TokenMint(recipient_token) # reward_mint THEN Err(s, "MintMismatch")
    ELSE token_transfer(s, vault_token, recipient_token, VaultPda(vault), amount)

\* disburse_spl that checks the payout mode after the distributor
disburse_spl_mode_last(s, vault, signer, is_signer, vault_token, recipient_token, amount) ==
    IF ~(amount > 0) THEN Err(s, "InvalidAmount")
    ELSE IF signer # s.vaults[vault].distributor THEN Err(s, "UnauthorizedDistributor")
    ELSE IF ~is_signer THEN Err(s, "MissingDistributorSignature")
    ELSE IF ~(~s.vaults[vault].pay_sol) THEN Err(s, "WrongPayoutMode")
    ELSE pay_out_spl(s, vault, vault_token, recipient_token, amount)

\* disburse_spl that asks for the signature before it compares the keys
disburse_spl_signature_first(s, vault, signer, is_signer, vault_token, recipient_token, amount) ==
    IF ~(amount > 0) THEN Err(s, "InvalidAmount")
    ELSE IF ~(~s.vaults[vault].pay_sol) THEN Err(s, "WrongPayoutMode")
    ELSE IF ~is_signer THEN Err(s, "MissingDistributorSignature")
    ELSE IF signer # s.vaults[vault].distributor THEN Err(s, "UnauthorizedDistributor")
    ELSE pay_out_spl(s, vault, vault_token, recipient_token, amount)

disburse_spl(s, vault, signer, is_signer, vault_token, recipient_token, amount) ==
    IF ~(amount > 0) THEN Err(s, "InvalidAmount")
    ELSE IF ~(~s.vaults[vault].pay_sol) THEN Err(s, "WrongPayoutMode")
    ELSE IF signer # s.vaults[vault].distributor THEN Err(s, "UnauthorizedDistributor")
    ELSE IF ~is_signer THEN Err(s, "MissingDistributorSignature")
    ELSE pay_out_spl(s, vault, vault_token, recipient_token, amount)

DisburseSplIx(s, vault, signer, is_signer, vault_token, recipient_token, amount) ==
    IF ~s.vaults[vault].init THEN Err(s, "AccountNotInitialized")
    ELSE disburse_spl(s, vault, signer, is_signer, vault_token, recipient_token, amount)

---------------------------------------------------------------------------
(* The host: an instruction that returns an error commits nothing.  `partial` *)
(* tells that the handler had changed the ledger before it returned the error. *)

Process(s, o) ==
    [result |-> o.result,
     st |-> IF o.result = "Ok" THEN o.st ELSE s,
     event |-> IF o.result = "Ok" THEN o.event ELSE NoEvent,
     partial |-> o.result # "Ok" /\ o.st # s]

---------------------------------------------------------------------------
(* Instructions as callers can issue them *)

InitVaultCalls ==
    [op : {"InitVault"}, vault : Keys, distributor : Keys,
     reward_mint : InitMints \cup {NoMint}, pay_sol : BOOLEAN]

StartEpochCalls ==
    [op : {"StartEpoch"}, vault : Keys, admin : Keys, start_ts : Times, end_ts : Times, index : Indexes]

\* (funder_token_account, vault_token_account) offered to FundVault: none, the vault's
\* account missing, the funder's missing, funder to vault, funder to a third party's
\* account, funder to itself, another mint on either side, a source the funder does not own
FundTokenArgs ==
    {<<NoAcct, NoAcct>>, <<"tw", NoAcct>>, <<NoAcct, "tv">>, <<"tw", "tv">>, <<"tw", "tu">>,
     <<"tw", "tw">>, <<"tw", "tx">>, <<"tx", "tv">>, <<"tu", "tv">>}

FundVaultCalls ==
    {[op |-> "FundVault", vault |-> v, funder |-> f, epoch |-> e,
      funder_token |-> ta[1], vault_token |-> ta[2], amount |-> n] :
        v \in Keys, f \in Keys, e \in Keys \cup {NoKey}, ta \in FundTokenArgs, n \in Amounts}

DisburseSolCalls ==
    [op : {"DisburseSol"}, vault : Keys, signer : Keys, is_signer : BOOLEAN, recipient : Keys,
     amount : Amounts, overflow_checks : BOOLEAN]

\* (vault_token_account, recipient_token_account) offered to DisburseSpl: vault to either
\* wallet, another mint on either side, a source the vault does not own
DisburseTokenArgs ==
    {<<"tv", "tw">>, <<"tv", "tu">>, <<"tv", "tx">>, <<"tx", "tw">>, <<"tw", "tu">>}

DisburseSplCalls ==
    {[op |-> "DisburseSpl", vault |-> v, signer |-> k, is_signer |-> b,
      vault_token |-> ta[1], recipient_token |-> ta[2], amount |-> n] :
        v \in Keys, k \in Keys, b \in BOOLEAN, ta \in DisburseTokenArgs, n \in Amounts}

DisburseCalls == DisburseSolCalls \cup DisburseSplCalls

\* the instruction `c` run on ledger `s`, as the host commits it
Run(s, c) ==
    Process(s,
        CASE c.op = "InitVault" ->
               InitVaultIx(s, c.vault, c.distributor, c.reward_mint, c.pay_sol)
          [] c.op = "StartEpoch" ->
               StartEpochIx(s, c.admin, c.vault, c.start_ts, c.end_ts, c.index)
          [] c.op = "FundVault" ->
               FundVaultIx(s, c.vault, c.funder, c.epoch, c.funder_token, c.vault_token, c.amount)
          [] c.op = "DisburseSol" ->
               DisburseSolIx(s, c.vault, c.signer, c.is_signer, c.recipient, c.amount, c.overflow_checks)
          [] c.op = "DisburseSpl" ->
               DisburseSplIx(s, c.vault, c.signer, c.is_signer, c.vault_token, c.recipient_token, c.amount))

---------------------------------------------------------------------------
(* Specification *)

\* `last` describes the instruction just run: `funded` is the vault a successful
\* FundVault funded, `moved` the amount a successful FundVault or disbursement moved,
\* `round_trip` tells that this successful DisburseSol paid out what the successful
\* FundVault right before it had put into the same vault
NoOp == [op |-> "none", result |-> "none", event |-> NoEvent, partial |-> FALSE,
         funded |-> NoKey, moved |-> 0, round_trip |-> FALSE]

Commit(p, c) ==
    /\ vaults' = p.st.vaults
    /\ epochs' = p.st.epochs
    /\ lamports' = p.st.lamports
    /\ tokens' = p.st.tokens
    /\ last' = [op |-> c.op, result |-> p.result, event |-> p.event, partial |-> p.partial,
                funded |-> IF p.result = "Ok" /\ c.op = "FundVault" THEN c.vault ELSE NoKey,
                moved |-> IF p.result = "Ok" /\ c.op \in {"FundVault", "DisburseSol", "DisburseSpl"}
                          THEN c.amount ELSE 0,
                round_trip |-> /\ c.op = "DisburseSol" /\ p.result = "Ok"
                               /\ last.funded = c.vault /\ last.moved = c.amount]

Step(c) == Commit(Run(Ledger, c), c)

Init ==
    /\ vaults = [a \in Keys |-> EmptyVault]
    /\ epochs = [a \in Keys |-> EmptyEpoch]
    /\ lamports = [x \in Accounts |-> IF x = Wallet("k1") THEN 1 ELSE 0]
    /\ tokens = [t \in TokenAccts |-> IF t = "tw" THEN 1 ELSE 0]
    /\ last = NoOp

InitVault ==
    \E c \in InitVaultCalls :
        /\ <<c.vault, c.distributor, c.reward_mint, c.pay_sol>> \in InitVaultInputs
        /\ Step(c)

StartEpoch ==
    \E c \in StartEpochCalls :
        /\ c.op = "StartEpoch"
        /\ Step(c)

FundVault ==
    \E c \in FundVaultCalls :
        /\ c.op = "FundVault"
        /\ Step(c)

DisburseSol ==
    \E c \in DisburseSolCalls :
        /\ c.op = "DisburseSol"
        /\ Step(c)

DisburseSpl ==
    \E c \in DisburseSplCalls :
        /\ c.op = "DisburseSpl"
        /\ Step(c)

Next == InitVault \/ StartEpoch \/ FundVault \/ DisburseSol \/ DisburseSpl

Spec == Init /\ [][Next]_vars

\* The same program on a ledger where wallet k2 holds the largest balance the integer
\* type has, so that a recipient can be at the top of its range when a vault has
\* something to pay out; no token has been minted
InitTop ==
    /\ vaults = [a \in Keys |-> EmptyVault]
    /\ epochs = [a \in Keys |-> EmptyEpoch]
    /\ lamports = [x \in Accounts |-> CASE x = Wallet("k1") -> 1 [] x = Wallet("k2") -> U64Max [] OTHER -> 0]
    /\ tokens = [t \in TokenAccts |-> 0]
    /\ last = NoOp

SpecTop == InitTop /\ [][Next]_vars

---------------------------------------------------------------------------
(* What the claims speak of *)

AllCalls == InitVaultCalls \cup StartEpochCalls \cup FundVaultCalls \cup DisburseCalls

RECURSIVE SumTokens(_, _)
SumTokens(tk, S) == IF S = {} THEN 0 ELSE LET t == CHOOSE x \in S : TRUE IN tk[t] + SumTokens(tk, S \ {t})

\* a vault's custody balances: its own lamports, and the tokens in the accounts it owns
NativeCustody(s, v) == s.lamports[VaultPda(v)]
TokenCustody(s, v) == SumTokens(s.tokens, {t \in TokenAccts : TokenOwner(t) = VaultPda(v)})

\* the error of the checks a disbursement makes before it looks at the signer, or "none"
EarlyDisburseError(c) ==
    IF c.amount = 0 THEN "InvalidAmount"
    ELSE IF (c.op = "DisburseSol") # vaults[c.vault].pay_sol THEN "WrongPayoutMode"
    ELSE "none"

---------------------------------------------------------------------------
(* C1 *)

C1_Debited(p, v) ==
    \/ NativeCustody(p.st, v) < NativeCustody(Ledger, v)
    \/ TokenCustody(p.st, v) < TokenCustody(Ledger, v)

C1_DebitIsAuthorized(c, p) ==
    \A v \in Keys :
        (p.st # Ledger /\ C1_Debited(p, v)) =>
            /\ c.op \in {"DisburseSol", "DisburseSpl"}
            /\ c.vault = v
            /\ p.result = "Ok"
            /\ c.signer = vaults[v].distributor
            /\ c.is_signer

\* C1: from every reachable state, whatever instruction whatever caller issues next, a
\* vault's custody balance (its lamports, or the tokens in the accounts it owns) gets
\* smaller only if the instruction is a disbursement on that vault that succeeds, whose
\* distributor_signer key is the vault's recorded distributor and has signed.
C1_CustodyDecreasesOnlyByDistributor ==
    \A c \in AllCalls : C1_DebitIsAuthorized(c, Run(Ledger, c))

\* an authorized disbursement has just paid out of a vault
C1_Witness ==
    /\ last.op \in {"DisburseSol", "DisburseSpl"}
    /\ last.result = "Ok"
    /\ last.moved > 0

---------------------------------------------------------------------------
(* C2 *)

C2_OtherIdentity(c) == vaults[c.vault].init /\ c.signer # vaults[c.vault].distributor

\* C2 as stated: a disbursement by any identity other than the recorded distributor
\* fails with UnauthorizedDistributor, for any amount (0 too) and any asset kind.
C2_AlwaysUnauthorized ==
    \A c \in DisburseCalls :
        C2_OtherIdentity(c) => Run(Ledger, c).result = "UnauthorizedDistributor"

C2_Rejected(c, p) ==
    /\ p.st = Ledger
    /\ p.result = IF EarlyDisburseError(c) # "none" THEN EarlyDisburseError(c)
                  ELSE "UnauthorizedDistributor"

\* C2 amended: a disbursement by any identity other than the recorded distributor
\* always fails and changes nothing: with InvalidAmount when amount = 0, else with
\* WrongPayoutMode when the instruction does not match the vault's asset kind, else
\* with UnauthorizedDistributor.
C2_NeverByOtherIdentity ==
    \A c \in DisburseCalls : C2_OtherIdentity(c) => C2_Rejected(c, Run(Ledger, c))

\* a disbursement has just been refused for its signer's key
C2_Witness ==
    /\ last.op \in {"DisburseSol", "DisburseSpl"}
    /\ last.result = "UnauthorizedDistributor"

---------------------------------------------------------------------------
(* C3 *)

C3_Overdraw(c) == vaults[c.vault].init /\ c.amount > NativeCustody(Ledger, c.vault)

C3_NoNegativeBalance == \A x \in Accounts : lamports[x] >= 0

\* C3 as stated: DisburseSol of more than the vault's lamports always fails with
\* InsufficientVaultBalance and leaves the vault's and the recipient's balance as they
\* were; no balance is ever below zero.
C3_AlwaysInsufficient ==
    /\ C3_NoNegativeBalance
    /\ \A c \in DisburseSolCalls :
           C3_Overdraw(c) => /\ Run(Ledger, c).result = "InsufficientVaultBalance"
                             /\ Run(Ledger, c).st.lamports = lamports

C3_Refused(c, p) ==
    /\ p.st.lamports = lamports
    /\ p.result = IF EarlyDisburseError(c) # "none" THEN EarlyDisburseError(c)
                  ELSE IF c.signer # vaults[c.vault].distributor THEN "UnauthorizedDistributor"
                  ELSE IF ~c.is_signer THEN "MissingDistributorSignature"
                  ELSE "InsufficientVaultBalance"

\* C3 amended: DisburseSol of more than the vault's lamports always fails and leaves
\* the vault's and the recipient's balance as they were; the error is
\* InsufficientVaultBalance when the vault is native and the recorded distributor has
\* signed, and otherwise that of the earlier check that fails (WrongPayoutMode,
\* UnauthorizedDistributor, MissingDistributorSignature); no balance is ever below zero.
C3_OverdrawNeverPaid ==
    /\ C3_NoNegativeBalance
    /\ \A c \in DisburseSolCalls : C3_Overdraw(c) => C3_Refused(c, Run(Ledger, c))

\* the distributor has just asked for more than the vault holds
C3_Witness ==
    /\ last.op = "DisburseSol"
    /\ last.result = "InsufficientVaultBalance"

---------------------------------------------------------------------------
(* C4 *)

C4_Payable(c) ==
    /\ vaults[c.vault].init /\ vaults[c.vault].pay_sol
    /\ c.amount > 0
    /\ lamports[Wallet(c.funder)] >= c.amount

\* no epoch is given, or the vault's own epoch with room for the amount
C4_EpochTakesIt(c) ==
    \/ c.epoch = NoKey
    \/ /\ epochs[c.epoch].init /\ epochs[c.epoch].vault = c.vault
       /\ epochs[c.epoch].total_funded + c.amount <= U128Max

C4_PayOut(c, r, b) ==
    [op |-> "DisburseSol", vault |-> c.vault, signer |-> vaults[c.vault].distributor,
     is_signer |-> TRUE, recipient |-> r, amount |-> c.amount, overflow_checks |-> b]

C4_PaidBack(c, funded, r, paid) ==
    /\ paid.result = "Ok"
    /\ NativeCustody(paid.st, c.vault) = NativeCustody(Ledger, c.vault)
    /\ paid.st.lamports[Wallet(r)] = funded.st.lamports[Wallet(r)] + c.amount

C4_ThereAndBack(c, funded) ==
    /\ C4_EpochTakesIt(c) => funded.result = "Ok"
    /\ funded.result = "Ok" =>
           \A r \in Keys, b \in BOOLEAN :
               C4_PaidBack(c, funded, r, Run(funded.st, C4_PayOut(c, r, b)))

\* C4: on a native vault, for every amount n > 0 the funder can pay, FundVault(n)
\* succeeds (given no epoch, or the vault's epoch with room for n), and DisburseSol(n)
\* right after it, signed by the recorded distributor, to any recipient, succeeds,
\* leaves the vault's lamports at their value before the funding and the recipient's
\* lamports n above their value before the disbursement.
C4_RoundTrip ==
    \A c \in FundVaultCalls : C4_Payable(c) => C4_ThereAndBack(c, Run(Ledger, c))

\* a DisburseSol has just paid out what the FundVault before it had put in
C4_Witness == last.round_trip

---------------------------------------------------------------------------
(* C5 *)

\* the custody balance of the vault's asset kind
Custody(s, v) == IF s.vaults[v].pay_sol THEN NativeCustody(s, v) ELSE TokenCustody(s, v)

C5_OwnEpoch(c) ==
    /\ c.amount > 0
    /\ vaults[c.vault].init
    /\ c.epoch # NoKey /\ epochs[c.epoch].init /\ epochs[c.epoch].vault = c.vault

C5_Exact(c, p) ==
    p.result = "Ok" =>
        /\ p.st.epochs[c.epoch].total_funded = epochs[c.epoch].total_funded + c.amount
        /\ Custody(p.st, c.vault) = Custody(Ledger, c.vault) + c.amount

\* C5: a FundVault with amount > 0 that is given the vault's own epoch and succeeds
\* adds exactly amount to the epoch's total_funded and exactly amount to the vault's
\* custody balance.
C5_FundingCountedOnce ==
    \A c \in FundVaultCalls : C5_OwnEpoch(c) => C5_Exact(c, Run(Ledger, c))

---------------------------------------------------------------------------
(* C6 *)

C6_TracksEpoch(c) == vaults[c.vault].init /\ c.epoch # NoKey /\ epochs[c.epoch].init

\* the call gets as far as the addition, and the sum is beyond the accumulator
C6_WouldOverflow(c) ==
    /\ c.amount > 0
    /\ fund_route(Ledger, c.vault, c.funder, c.funder_token, c.vault_token, c.amount).result = "Ok"
    /\ epochs[c.epoch].vault = c.vault
    /\ epochs[c.epoch].total_funded + c.amount > U128Max

C6_NoWrap(c, p) ==
    /\ p.st.epochs[c.epoch].total_funded >= epochs[c.epoch].total_funded
    /\ p.st.epochs[c.epoch].total_funded <= U128Max
    /\ epochs[c.epoch].total_funded + c.amount > U128Max => p.result # "Ok"
    /\ C6_WouldOverflow(c) => p.result = "ArithmeticOverflow" /\ p.st.epochs = epochs

\* C6: no FundVault makes the total_funded of the epoch it is given smaller or takes
\* it beyond the accumulator's capacity; a call whose amount does not fit fails, and
\* when it gets as far as the addition it fails with ArithmeticOverflow and every
\* epoch keeps its total_funded.
C6_TotalFundedNeverWraps ==
    \A c \in FundVaultCalls : C6_TracksEpoch(c) => C6_NoWrap(c, Run(Ledger, c))

\* a FundVault has just been refused because the accumulator is full
C6_Witness ==
    /\ last.op = "FundVault"
    /\ last.result = "ArithmeticOverflow"
    /\ \E v \in Keys : epochs[v].init /\ epochs[v].total_funded = U128Max

---------------------------------------------------------------------------
(* C7 *)

C7_OtherKind(c) == vaults[c.vault].init /\ (c.op = "DisburseSol") # vaults[c.vault].pay_sol

\* C7 as stated: a native vault rejects DisburseSpl, and a token vault DisburseSol,
\* with WrongPayoutMode for any amount and any caller, all balances unchanged.
C7_AlwaysWrongPayoutMode ==
    \A c \in DisburseCalls :
        C7_OtherKind(c) => /\ Run(Ledger, c).result = "WrongPayoutMode"
                           /\ Run(Ledger, c).st = Ledger

C7_Rejected(c, p) ==
    /\ p.st = Ledger
    /\ p.result = IF c.amount = 0 THEN "InvalidAmount" ELSE "WrongPayoutMode"

\* C7 amended: a native vault rejects DisburseSpl, and a token vault DisburseSol, with
\* WrongPayoutMode for any amount > 0 and any caller, and with InvalidAmount for
\* amount = 0, all balances unchanged.
C7_WrongKindRejected ==
    \A c \in DisburseCalls : C7_OtherKind(c) => C7_Rejected(c, Run(Ledger, c))

\* a DisburseSpl has just been refused by a native vault
C7_Witness ==
    /\ last.op = "DisburseSpl"
    /\ last.result = "WrongPayoutMode"

---------------------------------------------------------------------------
(* C8 *)

C8_ByAdmin(c) == vaults[c.vault].init /\ c.admin = vaults[c.vault].admin

C8_WindowDecides(c, p) ==
    IF c.start_ts < c.end_ts
    THEN /\ p.result = "Ok"
         /\ p.st.epochs[c.vault].init
    ELSE /\ p.result = "InvalidEpochWindow"
         /\ p.st.epochs = epochs
         /\ p.event = NoEvent

\* C8 as stated: in every reachable state, StartEpoch by the vault's admin succeeds
\* when start_ts < end_ts and fails with InvalidEpochWindow otherwise, creating no
\* epoch and emitting no event when it fails.
C8_AlwaysWindowDecides ==
    \A c \in StartEpochCalls : C8_ByAdmin(c) => C8_WindowDecides(c, Run(Ledger, c))

C8_SlotTaken(p) ==
    /\ p.result = "AccountAlreadyInUse"
    /\ p.st.epochs = epochs
    /\ p.event = NoEvent

\* C8 amended: while the vault has no epoch yet, StartEpoch by the vault's admin
\* succeeds when start_ts < end_ts and fails with InvalidEpochWindow otherwise,
\* creating no epoch and emitting no event when it fails; once the vault has an epoch,
\* every StartEpoch on it fails (the epoch's address is in use), whatever its window.
C8_WindowDecidesFirstEpoch ==
    \A c \in StartEpochCalls :
        C8_ByAdmin(c) => IF epochs[c.vault].init
                         THEN C8_SlotTaken(Run(Ledger, c))
                         ELSE C8_WindowDecides(c, Run(Ledger, c))

\* the admin's StartEpoch has just been refused for its window
C8_Witness ==
    /\ last.op = "StartEpoch"
    /\ last.result = "InvalidEpochWindow"

---------------------------------------------------------------------------
(* C9 *)

C9_Created(c) ==
    [init |-> TRUE, admin |-> c.vault, distributor |-> c.distributor,
     reward_mint |-> c.reward_mint, pay_sol |-> c.pay_sol]

C9_Outcome(c, p) ==
    IF vaults[c.vault].init
    THEN p.result \notin {"Ok", "RewardMintRequired"} /\ p.st = Ledger
    ELSE IF c.pay_sol \/ c.reward_mint # NoMint
    THEN p.result = "Ok" /\ p.st = [Ledger EXCEPT !.vaults[c.vault] = C9_Created(c)]
    ELSE p.result = "RewardMintRequired" /\ p.st = Ledger

\* C9: for an admin without a vault, InitVault succeeds whenever pay_sol holds or a
\* mint is given, recording exactly its arguments, and fails with RewardMintRequired
\* otherwise; for an admin who has a vault, InitVault fails (the address is in use) and
\* leaves the ledger as it was; the vault at an admin's address is that admin's.
C9_OneVaultPerAdmin ==
    /\ \A a \in Keys : vaults[a].init => vaults[a].admin = a
    /\ \A c \in InitVaultCalls : C9_Outcome(c, Run(Ledger, c))

\* a second InitVault has just been refused
C9_Witness ==
    /\ last.op = "InitVault"
    /\ last.result = "AccountAlreadyInUse"

---------------------------------------------------------------------------
(* C10 *)

\* C10: an instruction that fails has changed no balance and no record at any point
\* before it failed: every check that can fail comes before the first mutation.
C10_ValidationPrecedesMutation == last.result # "Ok" => ~last.partial

---------------------------------------------------------------------------
(* C11 *)

\* C11: in every reachable state, a vault with pay_sol = FALSE carries a reward mint
\* and a vault with pay_sol = TRUE carries none.
C11_AssetKindInvariant ==
    \A a \in Keys :
        vaults[a].init => (vaults[a].pay_sol <=> vaults[a].reward_mint = NoMint)

---------------------------------------------------------------------------
(* C12 *)

C12_ConfigKept ==
    \A a \in Keys :
        vaults[a].init =>
            /\ vaults'[a].init
            /\ vaults'[a].admin = vaults[a].admin
            /\ vaults'[a].distributor = vaults[a].distributor
            /\ vaults'[a].pay_sol = vaults[a].pay_sol
            /\ vaults'[a].reward_mint = vaults[a].reward_mint

\* C12: no step (StartEpoch, FundVault, DisburseSol, DisburseSpl, a later InitVault,
\* succeeding or failing) changes the admin, the distributor, the asset kind or the mint
\* of a vault that exists.
C12_VaultConfigIsFixed == [][C12_ConfigKept]_vars

\* a vault has been created and an InitVault that names another distributor for it
\* has just been refused
C12_Witness ==
    /\ last.op = "InitVault"
    /\ last.result # "Ok"
    /\ \E a \in Keys : vaults[a].init /\ vaults[a].distributor # a

---------------------------------------------------------------------------
(* C13 *)

\* the step has created the epoch of vault v, and nothing else has changed
C13_Creates(v) ==
    /\ ~epochs[v].init
    /\ epochs' = [epochs EXCEPT ![v] =
                    [init |-> TRUE, vault |-> v, start_ts |-> last'.event.start_ts,
                     end_ts |-> last'.event.end_ts, index |-> last'.event.epoch_index,
                     total_funded |-> 0]]
    /\ UNCHANGED <<vaults, lamports, tokens>>

C13_EmittedByCreation ==
    /\ last'.event # NoEvent =>
           /\ last'.op = "StartEpoch" /\ last'.result = "Ok"
           /\ last'.event.name = "NewEpoch"
           /\ \E v \in Keys : C13_Creates(v)
    /\ (\E v \in Keys : ~epochs[v].init /\ epochs'[v].init) => last'.event # NoEvent

\* a start_epoch that returns an error has emitted nothing, one that returns Ok has
\* emitted the window and index it was given
C13_HandlerEmits(c, o) ==
    o.event = IF o.result = "Ok" THEN NewEpoch(c.start_ts, c.end_ts, c.index) ELSE NoEvent

\* C13: NewEpoch is emitted only by a StartEpoch that succeeds in creating the epoch
\* record, once, carrying the start_ts, end_ts and index stored in that record; every
\* creation of an epoch emits it; the emitting step changes nothing but the new epoch
\* record; no other instruction and no failing StartEpoch emits it.
C13_NewEpochOnlyOnCreation ==
    /\ [][C13_EmittedByCreation]_vars
    /\ [](\A c \in StartEpochCalls :
             C13_HandlerEmits(c, StartEpochIx(Ledger, c.admin, c.vault, c.start_ts, c.end_ts, c.index)))

\* a StartEpoch has just emitted NewEpoch
C13_Witness ==
    /\ last.op = "StartEpoch"
    /\ last.event.name = "NewEpoch"

---------------------------------------------------------------------------
(* C14 *)

\* the accounts the call names exist: the vault, and the epoch if one is given
C14_AccountsExist(c) ==
    /\ vaults[c.vault].init
    /\ c.epoch # NoKey => epochs[c.epoch].init

C14_Refused(c, p) ==
    /\ p.st = Ledger
    /\ ~p.partial
    /\ C14_AccountsExist(c) => p.result = "InvalidAmount"
    /\ p.result # "Ok"

\* C14: FundVault with amount = 0 on a vault that exists fails with InvalidAmount,
\* whatever the vault's asset kind, the funder, the epoch (none, the vault's own or
\* another vault's) and the token accounts, and leaves every balance and every
\* total_funded as it was.
C14_ZeroFundingRefused ==
    \A c \in {x \in FundVaultCalls : x.amount = 0} : C14_Refused(c, Run(Ledger, c))

\* a FundVault has just been refused for its amount
C14_Witness ==
    /\ last.op = "FundVault"
    /\ last.result = "InvalidAmount"

---------------------------------------------------------------------------
(* C15 *)

C15_Paid(c) ==
    [lamports EXCEPT ![VaultPda(c.vault)] = @ - c.amount, ![Wallet(c.recipient)] = @ + c.amount]

C15_Paired(c, p) ==
    /\ \/ p.result = "Ok" /\ c.amount > 0 /\ p.st.lamports = C15_Paid(c)
       \/ p.result # "Ok" /\ p.st.lamports = lamports
    /\ p.st.lamports[VaultPda(c.vault)] + p.st.lamports[Wallet(c.recipient)]
           = lamports[VaultPda(c.vault)] + lamports[Wallet(c.recipient)]
    /\ \A x \in Accounts : p.st.lamports[x] \in 0..U64Max
    /\ lamports[Wallet(c.recipient)] + c.amount > U64Max => p.result # "Ok"

\* C15: every DisburseSol either takes exactly amount from the vault's lamports and
\* adds exactly amount to the recipient's, or changes no balance; this holds too when
\* the recipient is at the top of the integer range (the call then fails and the vault
\* keeps its lamports), so the vault's and the recipient's lamports together are the
\* same after the step as before it.
C15_PairedMutation ==
    \A c \in DisburseSolCalls : vaults[c.vault].init => C15_Paired(c, Run(Ledger, c))

\* a DisburseSol to a recipient at the top of the range has just failed in the credit
C15_Witness ==
    /\ last.op = "DisburseSol"
    /\ last.result \in {"ProgramFailedToComplete", "UnbalancedInstruction"}
    /\ \E k \in Keys : lamports[Wallet(k)] = U64Max

---------------------------------------------------------------------------
(* C16 *)

C16_SlotKept(p) ==
    /\ p.result # "Ok"
    /\ p.st = Ledger
    /\ p.event = NoEvent

---------------------------------------------------------------------------
(* C17 *)

C17_EpochKept(e) ==
    /\ epochs'[e].init
    /\ epochs'[e].vault = epochs[e].vault
    /\ epochs'[e].start_ts = epochs[e].start_ts
    /\ epochs'[e].end_ts = epochs[e].end_ts
    /\ epochs'[e].index = epochs[e].index
    /\ epochs'[e].total_funded >= epochs[e].total_funded
    /\ epochs'[e].total_funded # epochs[e].total_funded =>
           /\ last'.op = "FundVault" /\ last'.result = "Ok"
           /\ last'.funded = epochs[e].vault
           /\ epochs'[e].total_funded = epochs[e].total_funded + last'.moved

C17_EpochStep ==
    \A e \in Keys :
        IF epochs[e].init THEN C17_EpochKept(e)
        ELSE epochs'[e].init => epochs'[e].total_funded = 0 /\ last'.op = "StartEpoch"

C17_WellFormed ==
    \A e \in Keys : epochs[e].init => epochs[e].start_ts < epochs[e].end_ts

\* an instruction changes an epoch only if it is a FundVault that is given that epoch
\* and succeeds
C17_OnlyOwnFunding(c, p) ==
    \A e \in Keys :
        (epochs[e].init /\ p.st.epochs[e] # epochs[e]) =>
            c.op = "FundVault" /\ c.epoch = e /\ p.result = "Ok"

\* C17: an epoch record that exists stays, with its vault, start_ts, end_ts and index
\* as created and start_ts < end_ts; its total_funded is 0 when StartEpoch creates it,
\* never decreases, and changes only by a successful FundVault that is given this
\* epoch, by that call's amount; DisburseSol and DisburseSpl change no epoch.
C17_EpochLifecycle ==
    /\ [][C17_EpochStep]_vars
    /\ [](C17_WellFormed /\ \A c \in AllCalls : C17_OnlyOwnFunding(c, Run(Ledger, c)))

\* a disbursement has just succeeded while an epoch holds a total_funded above 0
C17_Witness ==
    /\ last.op \in {"DisburseSol", "DisburseSpl"}
    /\ last.result = "Ok"
    /\ \E e \in Keys : epochs[e].init /\ epochs[e].total_funded > 0

---------------------------------------------------------------------------
(* C18 *)

C18_Matching(c) ==
    /\ vaults[c.vault].init
    /\ c.amount > 0
    /\ (c.op = "DisburseSol") = vaults[c.vault].pay_sol

C18_SignerChecked(c, p) ==
    IF c.signer # vaults[c.vault].distributor
    THEN p.result = "UnauthorizedDistributor" /\ p.st = Ledger
    ELSE ~c.is_signer => p.result = "MissingDistributorSignature" /\ p.st = Ledger

\* C18: a disbursement with amount > 0 on a vault of the matching asset kind fails with
\* MissingDistributorSignature and moves nothing when its distributor_signer key is the
\* recorded distributor but has not signed, and fails with UnauthorizedDistributor
\* when the key is another one, signed or not.
C18_SignatureRequired ==
    \A c \in DisburseCalls : C18_Matching(c) => C18_SignerChecked(c, Run(Ledger, c))

\* a disbursement that names the distributor without its signature has just been refused
C18_Witness ==
    /\ last.op \in {"DisburseSol", "DisburseSpl"}
    /\ last.result = "MissingDistributorSignature"

---------------------------------------------------------------------------
(* C19 *)

\* C19: no FundVault and no DisburseSpl that is run, from any reachable state with any
\* input, returns RewardMintRequired: every vault with pay_sol = FALSE carries a mint.
C19_RewardMintRequiredUnreachable ==
    /\ \A a \in Keys : (vaults[a].init /\ ~vaults[a].pay_sol) => vaults[a].reward_mint # NoMint
    /\ last.op \in {"FundVault", "DisburseSpl"} => last.result # "RewardMintRequired"

\* a FundVault on a token vault has just gone through fund_spl and succeeded
C19_Witness ==
    /\ last.op = "FundVault"
    /\ last.result = "Ok"
    /\ ~vaults[last.funded].pay_sol

---------------------------------------------------------------------------
(* C20 *)

C20_Listed ==
    {"InvalidAmount", "WrongPayoutMode", "UnauthorizedDistributor",
     "MissingDistributorSignature", "InsufficientVaultBalance", "MintMismatch"}

\* the first precondition of the list that the call violates, or "none"
C20_First(c) ==
    IF c.amount = 0 THEN "InvalidAmount"
    ELSE IF (c.op = "DisburseSol") # vaults[c.vault].pay_sol THEN "WrongPayoutMode"
    ELSE IF c.signer # vaults[c.vault].distributor THEN "UnauthorizedDistributor"
    ELSE IF ~c.is_signer THEN "MissingDistributorSignature"
    ELSE IF c.op = "DisburseSol"
         THEN IF lamports[VaultPda(c.vault)] < c.amount THEN "InsufficientVaultBalance" ELSE "none"
    ELSE IF \/ TokenMint(c.vault_token) # vaults[c.vault].reward_mint
            \/ TokenMint(c.recipient_token) # vaults[c.vault].reward_mint
         THEN "MintMismatch" ELSE "none"

C20_Reported(c, p) ==
    IF C20_First(c) # "none"
    THEN p.result = C20_First(c) /\ p.st = Ledger
    ELSE p.result \notin C20_Listed

\* C20: a disbursement on a vault that exists reports the first violated precondition
\* in the order InvalidAmount, WrongPayoutMode, UnauthorizedDistributor,
\* MissingDistributorSignature, then InsufficientVaultBalance (native) or MintMismatch
\* (token), whatever else it violates, and changes nothing; a call that violates none
\* of them reports none of these errors.
C20_ErrorPrecedence ==
    \A c \in DisburseCalls : vaults[c.vault].init => C20_Reported(c, Run(Ledger, c))

\* a DisburseSol that lacked the signature and asked for more than any vault holds has
\* just been refused for the signature
C20_Witness ==
    /\ last.op = "DisburseSol"
    /\ last.result = "MissingDistributorSignature"
    /\ \A v \in Keys : lamports[VaultPda(v)] = 0

====
